---- MODULE Spec2Model ----
(***************************************************************************)
(* SW_Timer: up to TMR_NUM periodic software timers multiplexed onto one   *)
(* free running hardware counter and its single compare interrupt          *)
(* (src/SW_Timer_executable.c).                                            *)
(*                                                                         *)
(* uint32 arithmetic is modelled modulo WordMod (the source's 2^32 scaled  *)
(* down), so that counter wraparound happens inside the explored runs.     *)
(***************************************************************************)
EXTENDS Integers, FiniteSets, Sequences, TLC

----------------------------------------------------------------------------
(* Bounds of the exploration *)

\* uint32 values are 0 .. WordMod-1 (2^32 in the source)
WordMod == 5

\* set_timer / remove_timer are called on the slots 0 .. MaxTimerId
MaxTimerId == 1

\* the counter stops ticking once some times_fired has reached MaxFired
MaxFired == 2

\* set_timer / remove_timer calls the menu of the interleaved program makes
MaxMenuCalls == 2

\* iterations of the counter loop the interleaved program makes
MaxTicks == 4

\* timer_interrupt threads alive at the same time; the counter does not reach
\* tmr_cmp_reg while that many are running
MaxIsrThreads == 1

----------------------------------------------------------------------------
(* Program constants *)

TMR_NUM == 10

\* largest value of the uint8 timer_id parameter
UINT8_MAX == 255

\* slip: the initial minimal_rem is the largest signed value (0x7fffffff)
NO_TIMER_REMAIN_Signed == (WordMod - 1) \div 2

\* initial value of minimal_rem in find_minimal_remain (0xffffffff)
NO_TIMER_REMAIN == WordMod - 1

Slots == 0 .. (TMR_NUM - 1)

\* the timer_id values the menu passes: valid slots, and two invalid ones
TimerIdInputs == (0 .. MaxTimerId) \cup {TMR_NUM, UINT8_MAX}

\* the wait_us values the menu passes: every uint32, 0 and "negative" ones included
WaitInputs == 0 .. (WordMod - 1)

\* uint32 addition and subtraction
Add32(a, b) == (a + b) % WordMod
\* slip: a subtraction that does not wrap (clamped at 0)
Sub32_Clamped(a, b) == IF a >= b THEN a - b ELSE 0

Sub32(a, b) == (a - b + WordMod) % WordMod

----------------------------------------------------------------------------
(* State *)

VARIABLES
    timer_data,                 \* timer_data[TMR_NUM]: wait_us, remain, times_fired
    tmr_val_reg,                \* current counter value
    tmr_cmp_reg,                \* compare value
    tmr_clr_reg,                \* interrupt clear register
    last_update_timer_value,    \* counter value at the last update of timer_data
    irq,                        \* the counter matched tmr_cmp_reg, handler not yet run
    age,                        \* history: ticks since each slot's install / last firing
    last_op,                    \* history: the operation that produced this state
    main_thread,                \* main thread: position in the menu / set_timer / remove_timer
    menu_calls,                 \* set_timer / remove_timer calls the menu has made
    hw_ticks,                   \* iterations hw_timer_thread has made
    isr_threads                 \* the threads hw_timer_thread started on timer_interrupt

vars == <<timer_data, tmr_val_reg, tmr_cmp_reg, tmr_clr_reg,
          last_update_timer_value, irq, age, last_op, main_thread, menu_calls,
          hw_ticks, isr_threads>>

\* the positions of the threads, used by the interleaved program only
threadVars == <<main_thread, menu_calls, hw_ticks, isr_threads>>

\* the variables of the program itself
progVars == <<timer_data, tmr_val_reg, tmr_cmp_reg, tmr_clr_reg,
              last_update_timer_value>>

timer_data_t(w, r, f) == [wait_us |-> w, remain |-> r, times_fired |-> f]

\* history record of an operation. wrapped: a set_timer read a counter value
\* below last_update_timer_value, the counter having wrapped past 0 in between.
\* late: what ran while the handler of a compare match had not yet run, "no"
\* (nothing), "count" (the counter loop or remove_timer) or "set" (a set_timer
\* with a valid id); the record of that handler's run keeps the mark
Op(name, id, w, act, fired, fage) ==
    [op |-> name, id |-> id, wait_us |-> w, was_active |-> act,
     fired |-> fired, fire_age |-> fage,
     wrapped |-> (name = "set_timer" /\ tmr_val_reg < last_update_timer_value),
     late |-> IF name = "timer_interrupt" THEN last_op.late
              ELSE IF ~irq THEN "no"
              ELSE IF name = "set_timer" /\ id \in Slots THEN "set"
              ELSE IF last_op.late = "set" THEN "set"
              ELSE "count"]

NoAge == [i \in Slots |-> 0]

\* the main thread: the statement it is at, and the parameters and locals of the
\* set_timer / remove_timer call it is in
MainAt(pc, id, w, cur, min) ==
    [pc |-> pc, timer_id |-> id, wait_us |-> w,
     current_timer_value |-> cur, min_remain |-> min]

\* a timer_interrupt thread: the statement it is at ("none": not started, or
\* returned) and its local min_remain
IsrAt(pc, min) == [pc |-> pc, min_remain |-> min]

IsrIds == 1 .. MaxIsrThreads

----------------------------------------------------------------------------
(* find_minimal_remain *)

\* slip: the comparison is inverted, the loop keeps the largest remain
RECURSIVE FindMinimalLoop_Inverted(_, _, _)
FindMinimalLoop_Inverted(td, i, minimal_rem) ==
    IF i >= TMR_NUM THEN minimal_rem
    ELSE IF td[i].wait_us = 0 THEN FindMinimalLoop_Inverted(td, i + 1, minimal_rem)
    ELSE IF td[i].remain > minimal_rem
         THEN FindMinimalLoop_Inverted(td, i + 1, td[i].remain)
         ELSE FindMinimalLoop_Inverted(td, i + 1, minimal_rem)

RECURSIVE FindMinimalLoop(_, _, _)
FindMinimalLoop(td, i, minimal_rem) ==
    IF i >= TMR_NUM THEN minimal_rem
    ELSE IF td[i].wait_us = 0 THEN FindMinimalLoop(td, i + 1, minimal_rem)
    ELSE IF td[i].remain < minimal_rem
         THEN FindMinimalLoop(td, i + 1, td[i].remain)
         ELSE FindMinimalLoop(td, i + 1, minimal_rem)

\* slip: the loop starts at slot 1
find_minimal_remain_FromOne(td) == FindMinimalLoop(td, 1, NO_TIMER_REMAIN)

find_minimal_remain(td) == FindMinimalLoop(td, 0, NO_TIMER_REMAIN)

----------------------------------------------------------------------------
(* set_timer *)

\* slip: the rebase adds the elapsed time instead of subtracting it
SetTimerTable_AddDiff(td, timer_id, wait_us, time_diff) ==
    [i \in Slots |->
        IF i = timer_id THEN timer_data_t(wait_us, wait_us, 0)
        ELSE IF td[i].wait_us = 0 THEN td[i]
        ELSE [td[i] EXCEPT !.remain = Add32(td[i].remain, time_diff)]]

\* slip: the rebase loop does not skip the new timer
SetTimerTable_NoSkip(td, timer_id, wait_us, time_diff) ==
    [i \in Slots |->
        IF i = timer_id
        THEN IF wait_us = 0 THEN timer_data_t(0, 0, 0)
             ELSE timer_data_t(wait_us, Sub32(wait_us, time_diff), 0)
        ELSE IF td[i].wait_us = 0 THEN td[i]
        ELSE [td[i] EXCEPT !.remain = Sub32(td[i].remain, time_diff)]]

\* slip: times_fired is cleared inside the rebase loop, for every active slot
SetTimerTable_ResetAll(td, timer_id, wait_us, time_diff) ==
    [i \in Slots |->
        IF i = timer_id THEN timer_data_t(wait_us, wait_us, 0)
        ELSE IF td[i].wait_us = 0 THEN td[i]
        ELSE [td[i] EXCEPT !.remain = Sub32(td[i].remain, time_diff),
                           !.times_fired = 0]]

\* lines 65-67: assign values of the new timer
SetTimerAssign(td, timer_id, wait_us) ==
    [td EXCEPT ![timer_id] = timer_data_t(wait_us, wait_us, 0)]

\* slip: the rebase loop is left out, the other timers keep their remain
SetTimerRebase_None(td, timer_id, time_diff) == td

\* lines 76-86: update the remain of all the other active timers
SetTimerRebase(td, timer_id, time_diff) ==
    [i \in Slots |->
        IF i = timer_id THEN td[i]
        ELSE IF td[i].wait_us = 0 THEN td[i]
        ELSE [td[i] EXCEPT !.remain = Sub32(td[i].remain, time_diff)]]

\* the table after the assignment of the new timer and the rebase loop
SetTimerTable(td, timer_id, wait_us, time_diff) ==
    SetTimerRebase(SetTimerAssign(td, timer_id, wait_us), timer_id, time_diff)

\* slip: off by one in the limit check
SetTimerIdExceedsLimit_OffByOne(timer_id) == timer_id > TMR_NUM

\* the guard of set_timer: timer_id >= TMR_NUM returns
SetTimerIdExceedsLimit(timer_id) == timer_id >= TMR_NUM

SetTimerCall(timer_id, wait_us) ==
    /\ last_op' = Op("set_timer", timer_id, wait_us,
                     timer_id \in Slots /\ timer_data[timer_id].wait_us # 0,
                     {}, NoAge)
    /\ IF SetTimerIdExceedsLimit(timer_id)
       THEN UNCHANGED <<progVars, irq, age>>
       ELSE LET current_timer_value == tmr_val_reg
                time_diff == Sub32(current_timer_value, last_update_timer_value)
                td == SetTimerTable(timer_data, timer_id, wait_us, time_diff)
            IN /\ timer_data' = td
               /\ last_update_timer_value' = current_timer_value
               /\ tmr_cmp_reg' = Add32(current_timer_value, find_minimal_remain(td))
               /\ age' = [age EXCEPT ![timer_id] = 0]
               /\ UNCHANGED <<tmr_val_reg, tmr_clr_reg, irq>>

set_timer(timer_id, wait_us) ==
    /\ ~irq
    /\ SetTimerCall(timer_id, wait_us)
    /\ UNCHANGED threadVars

----------------------------------------------------------------------------
(* remove_timer *)

\* the guard of remove_timer: timer_id >= TMR_NUM returns
RemoveTimerIdExceedsLimit(timer_id) == timer_id >= TMR_NUM

\* slip: times_fired is not cleared
RemoveTimerTable_KeepFired(td, timer_id) ==
    IF td[timer_id].wait_us = 0 THEN td
    ELSE [td EXCEPT ![timer_id] = timer_data_t(0, 0, td[timer_id].times_fired)]

\* slip: remain is not cleared
RemoveTimerTable_KeepRemain(td, timer_id) ==
    IF td[timer_id].wait_us = 0 THEN td
    ELSE [td EXCEPT ![timer_id] = timer_data_t(0, td[timer_id].remain, 0)]

RemoveTimerTable(td, timer_id) ==
    IF td[timer_id].wait_us = 0 THEN td
    ELSE [td EXCEPT ![timer_id] = timer_data_t(0, 0, 0)]

\* slip: every call rearms the compare register from the current counter value
remove_timer_Rearm(timer_id) ==
    /\ ~irq
    /\ last_op' = Op("remove_timer", timer_id, 0,
                     timer_id \in Slots /\ timer_data[timer_id].wait_us # 0,
                     {}, NoAge)
    /\ IF RemoveTimerIdExceedsLimit(timer_id)
       THEN UNCHANGED <<progVars, irq, age>>
       ELSE /\ timer_data' = RemoveTimerTable(timer_data, timer_id)
            /\ tmr_cmp_reg' = Add32(tmr_val_reg, find_minimal_remain(timer_data'))
            /\ age' = [age EXCEPT ![timer_id] = 0]
            /\ UNCHANGED <<tmr_val_reg, tmr_clr_reg, last_update_timer_value, irq>>
    /\ UNCHANGED threadVars

RemoveTimerCall(timer_id) ==
    /\ last_op' = Op("remove_timer", timer_id, 0,
                     timer_id \in Slots /\ timer_data[timer_id].wait_us # 0,
                     {}, NoAge)
    /\ IF RemoveTimerIdExceedsLimit(timer_id)
       THEN UNCHANGED <<progVars, irq, age>>
       ELSE /\ timer_data' = RemoveTimerTable(timer_data, timer_id)
            /\ age' = [age EXCEPT ![timer_id] = 0]
            /\ UNCHANGED <<tmr_val_reg, tmr_cmp_reg, tmr_clr_reg,
                           last_update_timer_value, irq>>

remove_timer(timer_id) ==
    /\ ~irq
    /\ RemoveTimerCall(timer_id)
    /\ UNCHANGED threadVars

----------------------------------------------------------------------------
(* display_timers: the lines printed, one per active slot, in slot order *)

RECURSIVE DisplayLoop(_, _)
DisplayLoop(td, i) ==
    IF i >= TMR_NUM THEN << >>
    ELSE IF td[i].wait_us # 0
         THEN << <<i, td[i].wait_us, td[i].remain, td[i].times_fired>> >>
              \o DisplayLoop(td, i + 1)
         ELSE DisplayLoop(td, i + 1)

display_timers(td) == DisplayLoop(td, 0)

----------------------------------------------------------------------------
(* timer_interrupt *)

\* the slots whose remain reaches 0 in the handler's loop
FiringSlots(td, min_remain) ==
    {i \in Slots : td[i].wait_us # 0 /\ Sub32(td[i].remain, min_remain) = 0}

\* slip: the loop stops at the first timer that fires
InterruptTable_FirstOnly(td, min_remain) ==
    [i \in Slots |->
        IF td[i].wait_us = 0 THEN td[i]
        ELSE IF \E j \in 0 .. (i - 1) :
                    td[j].wait_us # 0 /\ Sub32(td[j].remain, min_remain) = 0
             THEN td[i]
        ELSE IF Sub32(td[i].remain, min_remain) = 0
             THEN timer_data_t(td[i].wait_us, td[i].wait_us,
                               (td[i].times_fired + 1) % WordMod)
             ELSE [td[i] EXCEPT !.remain = Sub32(td[i].remain, min_remain)]]

\* slip: a timer that fires is deactivated (one-shot timers)
InterruptTable_OneShot(td, min_remain) ==
    [i \in Slots |->
        IF td[i].wait_us = 0 THEN td[i]
        ELSE IF Sub32(td[i].remain, min_remain) = 0
             THEN timer_data_t(0, 0, (td[i].times_fired + 1) % WordMod)
             ELSE [td[i] EXCEPT !.remain = Sub32(td[i].remain, min_remain)]]

\* the table after the handler's loop
InterruptTable(td, min_remain) ==
    [i \in Slots |->
        IF td[i].wait_us = 0 THEN td[i]
        ELSE IF Sub32(td[i].remain, min_remain) = 0
             THEN timer_data_t(td[i].wait_us, td[i].wait_us,
                               (td[i].times_fired + 1) % WordMod)
             ELSE [td[i] EXCEPT !.remain = Sub32(td[i].remain, min_remain)]]

timer_interrupt ==
    /\ irq
    /\ LET min_remain == find_minimal_remain(timer_data)
           td == InterruptTable(timer_data, min_remain)
           fired == FiringSlots(timer_data, min_remain)
       IN /\ timer_data' = td
          /\ last_update_timer_value' = tmr_val_reg
          /\ tmr_cmp_reg' = Add32(tmr_val_reg, find_minimal_remain(td))
          /\ tmr_clr_reg' = 1
          /\ last_op' = Op("timer_interrupt", 0, 0, FALSE, fired,
                           [i \in Slots |-> IF i \in fired THEN age[i] ELSE 0])
          /\ age' = [i \in Slots |-> IF i \in fired THEN 0 ELSE age[i]]
    /\ irq' = FALSE
    /\ UNCHANGED <<tmr_val_reg, threadVars>>

----------------------------------------------------------------------------
(* hw_timer_thread: one iteration of the counter loop *)

hw_timer_thread ==
    /\ ~irq
    /\ \A i \in Slots : timer_data[i].times_fired < MaxFired
    /\ tmr_val_reg' = Add32(tmr_val_reg, 1)
    /\ irq' = (tmr_val_reg' = tmr_cmp_reg)
    /\ age' = [i \in Slots |->
                 IF timer_data[i].wait_us # 0 THEN (age[i] + 1) % WordMod ELSE 0]
    /\ last_op' = Op("hw_timer_thread", 0, 0, FALSE, {}, NoAge)
    /\ UNCHANGED <<timer_data, tmr_cmp_reg, tmr_clr_reg, last_update_timer_value,
                   threadVars>>

----------------------------------------------------------------------------
(* The program with atomic operations and a handler that runs at the match *)

Init ==
    /\ timer_data = [i \in Slots |-> timer_data_t(0, 0, 0)]
    /\ tmr_val_reg = 0
    /\ tmr_cmp_reg = 0
    /\ tmr_clr_reg = 0
    /\ last_update_timer_value = 0
    /\ irq = FALSE
    /\ age = NoAge
    /\ last_op = Op("init", 0, 0, FALSE, {}, NoAge)
    /\ main_thread = MainAt("menu", 0, 0, 0, 0)
    /\ menu_calls = 0
    /\ hw_ticks = 0
    /\ isr_threads = [k \in IsrIds |-> IsrAt("none", 0)]

Next ==
    \/ \E timer_id \in TimerIdInputs, wait_us \in WaitInputs : set_timer(timer_id, wait_us)
    \/ \E timer_id \in TimerIdInputs : remove_timer(timer_id)
    \/ hw_timer_thread
    \/ timer_interrupt

Spec == Init /\ [][Next]_vars

----------------------------------------------------------------------------
(* The program with atomic operations, a counter that never stops and a     *)
(* handler that runs at every match: hw_timer_thread is a while (TRUE) loop  *)
(* in a thread of its own, and every handler thread it starts runs.          *)

\* one iteration of the counter loop, however often the timers have fired
\* (times_fired wraps as a uint32 does)
running_hw_timer_thread ==
    /\ ~irq
    /\ tmr_val_reg' = Add32(tmr_val_reg, 1)
    /\ irq' = (tmr_val_reg' = tmr_cmp_reg)
    /\ age' = [i \in Slots |->
                 IF timer_data[i].wait_us # 0 THEN (age[i] + 1) % WordMod ELSE 0]
    /\ last_op' = Op("hw_timer_thread", 0, 0, FALSE, {}, NoAge)
    /\ UNCHANGED <<timer_data, tmr_cmp_reg, tmr_clr_reg, last_update_timer_value,
                   threadVars>>

NextRunning ==
    \/ \E timer_id \in TimerIdInputs, wait_us \in WaitInputs : set_timer(timer_id, wait_us)
    \/ \E timer_id \in TimerIdInputs : remove_timer(timer_id)
    \/ running_hw_timer_thread
    \/ timer_interrupt

SpecRunning ==
    /\ Init
    /\ [][NextRunning]_vars
    /\ WF_vars(running_hw_timer_thread)
    /\ WF_vars(timer_interrupt)

----------------------------------------------------------------------------
(* The program with atomic operations and a handler that runs late: the     *)
(* thread hw_timer_thread starts for timer_interrupt runs some time after    *)
(* the match, while the counter keeps counting and the menu keeps calling    *)
(* set_timer and remove_timer.                                               *)

\* set_timer called while the handler of a match has not yet run; one such call
\* with a valid id is followed per late handler
late_set_timer(timer_id, wait_us) ==
    /\ irq
    /\ last_op.late # "set"
    /\ SetTimerCall(timer_id, wait_us)
    /\ UNCHANGED threadVars

\* remove_timer called while the handler of a match has not yet run, before
\* the late set_timer
late_remove_timer(timer_id) ==
    /\ irq
    /\ last_op.late # "set"
    /\ RemoveTimerCall(timer_id)
    /\ UNCHANGED threadVars

\* the counter loop goes on while the handler has not yet run; a second match
\* would start a second handler thread
late_hw_timer_thread ==
    /\ irq
    /\ \A i \in Slots : timer_data[i].times_fired < MaxFired
    /\ tmr_val_reg' = Add32(tmr_val_reg, 1)
    /\ tmr_val_reg' # tmr_cmp_reg
    /\ age' = [i \in Slots |->
                 IF timer_data[i].wait_us # 0 THEN (age[i] + 1) % WordMod ELSE 0]
    /\ last_op' = Op("hw_timer_thread", 0, 0, FALSE, {}, NoAge)
    /\ UNCHANGED <<timer_data, tmr_cmp_reg, tmr_clr_reg, last_update_timer_value,
                   irq, threadVars>>

\* a handler has run late; the late program is followed up to the first such run
LateHandlerDone == last_op.op = "timer_interrupt" /\ last_op.late # "no"

on_time_set_timer(timer_id, wait_us) ==
    ~LateHandlerDone /\ set_timer(timer_id, wait_us)

on_time_remove_timer(timer_id) ==
    ~LateHandlerDone /\ remove_timer(timer_id)

on_time_hw_timer_thread ==
    ~LateHandlerDone /\ hw_timer_thread

NextLate ==
    \/ \E timer_id \in TimerIdInputs, wait_us \in WaitInputs :
           on_time_set_timer(timer_id, wait_us)
    \/ \E timer_id \in TimerIdInputs : on_time_remove_timer(timer_id)
    \/ on_time_hw_timer_thread
    \/ timer_interrupt
    \/ \E timer_id \in TimerIdInputs, wait_us \in WaitInputs :
           late_set_timer(timer_id, wait_us)
    \/ \E timer_id \in TimerIdInputs : late_remove_timer(timer_id)
    \/ late_hw_timer_thread

SpecLate == Init /\ [][NextLate]_vars

----------------------------------------------------------------------------
(* The program as main() starts it: show_main_menu in the main thread,       *)
(* hw_timer_thread in a thread of its own, and one more thread for every     *)
(* timer_interrupt. The source has no lock or other synchronisation; the     *)
(* threads interleave between the statements named by the pc values, which   *)
(* are source line numbers.                                                  *)

\* show_main_menu, choice 2: set_timer is called; its limit check returns to the menu
main_call_set_timer(timer_id, wait_us) ==
    /\ main_thread.pc = "menu"
    /\ menu_calls < MaxMenuCalls
    /\ menu_calls' = menu_calls + 1
    /\ main_thread' = IF SetTimerIdExceedsLimit(timer_id)
                      THEN MainAt("menu", 0, 0, 0, 0)
                      ELSE MainAt("set_65", timer_id, wait_us, 0, 0)
    /\ UNCHANGED <<progVars, irq, age, last_op, hw_ticks, isr_threads>>

\* lines 65-67: assign values of the new timer
main_set_65 ==
    /\ main_thread.pc = "set_65"
    /\ timer_data' = SetTimerAssign(timer_data, main_thread.timer_id, main_thread.wait_us)
    /\ main_thread' = [main_thread EXCEPT !.pc = "set_70"]
    /\ UNCHANGED <<tmr_val_reg, tmr_cmp_reg, tmr_clr_reg, last_update_timer_value,
                   irq, age, last_op, menu_calls, hw_ticks, isr_threads>>

\* line 70: read the counter
main_set_70 ==
    /\ main_thread.pc = "set_70"
    /\ main_thread' = [main_thread EXCEPT !.pc = "set_75",
                                          !.current_timer_value = tmr_val_reg]
    /\ UNCHANGED <<progVars, irq, age, last_op, menu_calls, hw_ticks, isr_threads>>

\* lines 75-86: time_diff and the rebase loop
main_set_75 ==
    /\ main_thread.pc = "set_75"
    /\ timer_data' = SetTimerRebase(timer_data, main_thread.timer_id,
                         Sub32(main_thread.current_timer_value, last_update_timer_value))
    /\ main_thread' = [main_thread EXCEPT !.pc = "set_89"]
    /\ UNCHANGED <<tmr_val_reg, tmr_cmp_reg, tmr_clr_reg, last_update_timer_value,
                   irq, age, last_op, menu_calls, hw_ticks, isr_threads>>

\* line 89: save the counter value read
main_set_89 ==
    /\ main_thread.pc = "set_89"
    /\ last_update_timer_value' = main_thread.current_timer_value
    /\ main_thread' = [main_thread EXCEPT !.pc = "set_91"]
    /\ UNCHANGED <<timer_data, tmr_val_reg, tmr_cmp_reg, tmr_clr_reg,
                   irq, age, last_op, menu_calls, hw_ticks, isr_threads>>

\* line 91: min_remain = find_minimal_remain()
main_set_91 ==
    /\ main_thread.pc = "set_91"
    /\ main_thread' = [main_thread EXCEPT !.pc = "set_92",
                                          !.min_remain = find_minimal_remain(timer_data)]
    /\ UNCHANGED <<progVars, irq, age, last_op, menu_calls, hw_ticks, isr_threads>>

\* line 92: arm the compare register and return to the menu
main_set_92 ==
    /\ main_thread.pc = "set_92"
    /\ tmr_cmp_reg' = Add32(main_thread.current_timer_value, main_thread.min_remain)
    /\ main_thread' = MainAt("menu", 0, 0, 0, 0)
    /\ UNCHANGED <<timer_data, tmr_val_reg, tmr_clr_reg, last_update_timer_value,
                   irq, age, last_op, menu_calls, hw_ticks, isr_threads>>

\* show_main_menu, choice 3: remove_timer is called; its limit check returns to the menu
main_call_remove_timer(timer_id) ==
    /\ main_thread.pc = "menu"
    /\ menu_calls < MaxMenuCalls
    /\ menu_calls' = menu_calls + 1
    /\ main_thread' = IF RemoveTimerIdExceedsLimit(timer_id)
                      THEN MainAt("menu", 0, 0, 0, 0)
                      ELSE MainAt("rem_198", timer_id, 0, 0, 0)
    /\ UNCHANGED <<progVars, irq, age, last_op, hw_ticks, isr_threads>>

\* lines 198-206: deactivate the timer unless it is already inactive
main_rem_198 ==
    /\ main_thread.pc = "rem_198"
    /\ timer_data' = RemoveTimerTable(timer_data, main_thread.timer_id)
    /\ main_thread' = MainAt("menu", 0, 0, 0, 0)
    /\ UNCHANGED <<tmr_val_reg, tmr_cmp_reg, tmr_clr_reg, last_update_timer_value,
                   irq, age, last_op, menu_calls, hw_ticks, isr_threads>>

\* hw_timer_thread, lines 285-295: count, and start a timer_interrupt thread on a match
hw_timer_count ==
    /\ \A i \in Slots : timer_data[i].times_fired < MaxFired
    /\ hw_ticks < MaxTicks
    /\ hw_ticks' = hw_ticks + 1
    /\ tmr_val_reg' = Add32(tmr_val_reg, 1)
    /\ IF tmr_val_reg' = tmr_cmp_reg
       THEN /\ \E k \in IsrIds : isr_threads[k].pc = "none"
            /\ LET k == CHOOSE k \in IsrIds : isr_threads[k].pc = "none"
               IN isr_threads' = [isr_threads EXCEPT ![k] = IsrAt("isr_99", 0)]
       ELSE UNCHANGED isr_threads
    /\ UNCHANGED <<timer_data, tmr_cmp_reg, tmr_clr_reg, last_update_timer_value,
                   irq, age, last_op, main_thread, menu_calls>>

\* line 99: min_remain = find_minimal_remain()
isr_99(k) ==
    /\ isr_threads[k].pc = "isr_99"
    /\ isr_threads' = [isr_threads EXCEPT
                          ![k] = IsrAt("isr_101", find_minimal_remain(timer_data))]
    /\ UNCHANGED <<progVars, irq, age, last_op, main_thread, menu_calls, hw_ticks>>

\* lines 101-115: advance every active timer, reload the ones that reach 0
isr_101(k) ==
    /\ isr_threads[k].pc = "isr_101"
    /\ timer_data' = InterruptTable(timer_data, isr_threads[k].min_remain)
    /\ isr_threads' = [isr_threads EXCEPT ![k].pc = "isr_118"]
    /\ UNCHANGED <<tmr_val_reg, tmr_cmp_reg, tmr_clr_reg, last_update_timer_value,
                   irq, age, last_op, main_thread, menu_calls, hw_ticks>>

\* line 118: save the counter value
isr_118(k) ==
    /\ isr_threads[k].pc = "isr_118"
    /\ last_update_timer_value' = tmr_val_reg
    /\ isr_threads' = [isr_threads EXCEPT ![k].pc = "isr_121"]
    /\ UNCHANGED <<timer_data, tmr_val_reg, tmr_cmp_reg, tmr_clr_reg,
                   irq, age, last_op, main_thread, menu_calls, hw_ticks>>

\* line 121: min_remain = find_minimal_remain()
isr_121(k) ==
    /\ isr_threads[k].pc = "isr_121"
    /\ isr_threads' = [isr_threads EXCEPT
                          ![k] = IsrAt("isr_122", find_minimal_remain(timer_data))]
    /\ UNCHANGED <<progVars, irq, age, last_op, main_thread, menu_calls, hw_ticks>>

\* line 122: arm the compare register
isr_122(k) ==
    /\ isr_threads[k].pc = "isr_122"
    /\ tmr_cmp_reg' = Add32(last_update_timer_value, isr_threads[k].min_remain)
    /\ isr_threads' = [isr_threads EXCEPT ![k].pc = "isr_125"]
    /\ UNCHANGED <<timer_data, tmr_val_reg, tmr_clr_reg, last_update_timer_value,
                   irq, age, last_op, main_thread, menu_calls, hw_ticks>>

\* lines 125-127: clear the interrupt and return; the thread ends
isr_125(k) ==
    /\ isr_threads[k].pc = "isr_125"
    /\ tmr_clr_reg' = 1
    /\ isr_threads' = [isr_threads EXCEPT ![k] = IsrAt("none", 0)]
    /\ UNCHANGED <<timer_data, tmr_val_reg, tmr_cmp_reg, last_update_timer_value,
                   irq, age, last_op, main_thread, menu_calls, hw_ticks>>

NextThreads ==
    \/ \E timer_id \in TimerIdInputs, wait_us \in WaitInputs :
           main_call_set_timer(timer_id, wait_us)
    \/ main_set_65
    \/ main_set_70
    \/ main_set_75
    \/ main_set_89
    \/ main_set_91
    \/ main_set_92
    \/ \E timer_id \in TimerIdInputs : main_call_remove_timer(timer_id)
    \/ main_rem_198
    \/ hw_timer_count
    \/ \E k \in IsrIds : isr_99(k)
    \/ \E k \in IsrIds : isr_101(k)
    \/ \E k \in IsrIds : isr_118(k)
    \/ \E k \in IsrIds : isr_121(k)
    \/ \E k \in IsrIds : isr_122(k)
    \/ \E k \in IsrIds : isr_125(k)

SpecThreads == Init /\ [][NextThreads]_vars

----------------------------------------------------------------------------
(* Properties *)

Active(i) == timer_data[i].wait_us # 0
ValidIds == {id \in TimerIdInputs : id < TMR_NUM}
InvalidIds == {id \in TimerIdInputs : id >= TMR_NUM}

\* C1: with atomic operations and the handler run at the compare match, every
\* active slot has 0 <= remain <= wait_us between operations.
C1_RemainWithinPeriod ==
    \A i \in Slots :
        Active(i) => /\ 0 <= timer_data[i].remain
                     /\ timer_data[i].remain <= timer_data[i].wait_us

\* a handler run advanced one slot and fired another one, which had been
\* installed or had last fired before the counter wrapped past 0
C1_Witness ==
    /\ last_op.op = "timer_interrupt"
    /\ last_op.fired # {}
    /\ \E i \in Slots : Active(i) /\ 0 < timer_data[i].remain
                        /\ timer_data[i].remain < timer_data[i].wait_us
    /\ \E i \in last_op.fired : tmr_val_reg < last_op.fire_age[i]

\* C2: whenever a timer is active, the compare register is
\* last_update_timer_value + the minimal remain of the active slots.
C2_CompareArmedForSoonest ==
    (\E i \in Slots : Active(i)) =>
        tmr_cmp_reg = Add32(last_update_timer_value, find_minimal_remain(timer_data))

\* C3: a timer fires exactly wait_us ticks after its install or its previous
\* firing, never earlier.
C3_FiresExactlyAfterPeriod ==
    last_op.op = "timer_interrupt" =>
        \A i \in last_op.fired : last_op.fire_age[i] = timer_data[i].wait_us

\* C4: set_timer(id, 0) with a valid id changes no slot, nor
\* last_update_timer_value, nor the compare register.
C4_ZeroPeriodRejected ==
    [][\A id \in ValidIds : set_timer(id, 0) => UNCHANGED progVars]_vars

C6_RemoveIdempotent ==
    [][\A id \in ValidIds :
          (/\ remove_timer(id)
           /\ \/ ~Active(id)
              \/ (last_op.op = "remove_timer" /\ last_op.id = id))
              => UNCHANGED progVars]_vars

\* a second remove_timer on a slot that was active before the first, with
\* another timer still running and time elapsed since the last update
C6_Witness ==
    /\ last_op.op = "remove_timer"
    /\ last_op.id \in ValidIds
    /\ ~last_op.was_active
    /\ \E i \in Slots : Active(i)
    /\ tmr_val_reg # last_update_timer_value
    /\ tmr_cmp_reg # Add32(last_update_timer_value, find_minimal_remain(timer_data))

\* C7: right after set_timer(id, P) with a valid id and P > 0, slot id holds
\* wait_us = P, remain = P, times_fired = 0 and display_timers prints it.
C7_InstallRoundTrip ==
    (last_op.op = "set_timer" /\ last_op.id \in ValidIds /\ last_op.wait_us > 0) =>
        /\ timer_data[last_op.id] = timer_data_t(last_op.wait_us, last_op.wait_us, 0)
        /\ \E k \in DOMAIN display_timers(timer_data) :
              display_timers(timer_data)[k]
                  = <<last_op.id, last_op.wait_us, last_op.wait_us, 0>>

\* set_timer on a slot that was active, with time elapsed since the last update
C7_Witness ==
    /\ last_op.op = "set_timer"
    /\ last_op.id \in ValidIds
    /\ last_op.wait_us > 1
    /\ last_op.was_active
    /\ \E i \in Slots : i # last_op.id /\ Active(i)
                        /\ timer_data[i].remain < timer_data[i].wait_us

C9_RemoveFrame ==
    [][\A id \in ValidIds :
          (remove_timer(id) /\ Active(id)) =>
              /\ timer_data'[id] = timer_data_t(0, 0, 0)
              /\ \A j \in Slots \ {id} : timer_data'[j] = timer_data[j]
              /\ UNCHANGED <<tmr_val_reg, tmr_cmp_reg, tmr_clr_reg,
                             last_update_timer_value>>]_vars

\* the soonest timer was removed while another one was running: the compare
\* register is left armed for the removed timer
C9_Witness ==
    /\ last_op.op = "remove_timer"
    /\ last_op.was_active
    /\ \E i \in Slots : Active(i)
    /\ tmr_cmp_reg # Add32(last_update_timer_value, find_minimal_remain(timer_data))

\* the main thread is inside set_timer or remove_timer, between its first
\* access to timer_data and its last write
MainPartWay == main_thread.pc \notin {"menu", "set_65", "rem_198"}

\* a timer_interrupt thread is between its first read of timer_data and its
\* last write
IsrPartWay(k) == isr_threads[k].pc \in {"isr_101", "isr_118", "isr_121", "isr_122"}

\* C10: timer_interrupt and set_timer / remove_timer exclude each other: never
\* is one of them part-way through its update of timer_data and
\* last_update_timer_value while the other one is, too.
C10_MutualExclusion ==
    ~(MainPartWay /\ \E k \in IsrIds : IsrPartWay(k))

\* the smallest remain among the active slots of td, 0xffffffff when none is active
ActiveSlots(td) == {i \in Slots : td[i].wait_us # 0}
MinRemainOf(td) ==
    IF ActiveSlots(td) = {} THEN WordMod - 1
    ELSE CHOOSE r \in {td[i].remain : i \in ActiveSlots(td)} :
             \A i \in ActiveSlots(td) : r <= td[i].remain

\* C11: when the handler runs at a compare match with a timer active, the
\* min_remain of its first step is the time elapsed since the last update,
\* tmr_val_reg - last_update_timer_value.
C11_MinRemainIsElapsed ==
    [][(timer_interrupt /\ ActiveSlots(timer_data) # {}) =>
          find_minimal_remain(timer_data)
              = Sub32(tmr_val_reg, last_update_timer_value)]_vars

\* C12: right after every set_timer with a valid id and every timer_interrupt,
\* last_update_timer_value is the counter value the operation read and the
\* compare register is last_update_timer_value + the minimal remain of the
\* active slots of the updated table.
C12_ArmedAfterUpdate ==
    (\/ (last_op.op = "set_timer" /\ last_op.id \in ValidIds)
     \/ last_op.op = "timer_interrupt") =>
        /\ last_update_timer_value = tmr_val_reg
        /\ tmr_cmp_reg = Add32(last_update_timer_value, MinRemainOf(timer_data))

\* set_timer has just rebased a running timer, which stays the soonest one, at a
\* counter value that differs from the previous update
C12_Witness ==
    /\ last_op.op = "set_timer"
    /\ last_op.id \in ValidIds
    /\ last_op.wait_us > 0
    /\ \E j \in Slots \ {last_op.id} :
          /\ Active(j)
          /\ timer_data[j].remain < timer_data[j].wait_us
          /\ timer_data[j].remain < last_op.wait_us
          /\ tmr_cmp_reg = Add32(tmr_val_reg, timer_data[j].remain)

\* C13: in one run of the handler, with m the minimal remain of the active slots
\* at entry, exactly the active slots with remain = m fire (remain reloaded to
\* wait_us, times_fired + 1), all of them in that run; every other active slot
\* has remain decreased by m and times_fired unchanged.
C13_ExactlyMinimalFire ==
    [][timer_interrupt =>
          LET m == MinRemainOf(timer_data)
          IN \A i \in ActiveSlots(timer_data) :
                IF timer_data[i].remain = m
                THEN /\ timer_data'[i].remain = timer_data[i].wait_us
                     /\ timer_data'[i].times_fired = timer_data[i].times_fired + 1
                     /\ i \in last_op'.fired
                ELSE /\ timer_data'[i].remain = timer_data[i].remain - m
                     /\ timer_data'[i].times_fired = timer_data[i].times_fired
                     /\ i \notin last_op'.fired]_vars

\* two timers of different periods tied at the minimal remain and fired in the
\* same run of the handler
C13_Witness ==
    /\ last_op.op = "timer_interrupt"
    /\ Cardinality(last_op.fired) >= 2
    /\ \E i, j \in last_op.fired : timer_data[i].wait_us # timer_data[j].wait_us

\* one timer fired while another one was only advanced, in one run of the handler
C13_WitnessAdvance ==
    /\ last_op.op = "timer_interrupt"
    /\ Cardinality(last_op.fired) = 1
    /\ \E j \in ActiveSlots(timer_data) \ last_op.fired :
          timer_data[j].remain < timer_data[j].wait_us

\* C14: after any run of the handler, at least one slot that was active at
\* entry has fired in that run.
C14_SomeSlotFires ==
    last_op.op = "timer_interrupt" => last_op.fired # {}

\* C14, amended: after a run of the handler that was entered with at least one
\* active slot, at least one slot that was active at entry has fired in that
\* run (the handler changes no wait_us, so the active slots at exit are those
\* at entry).
C14_SomeSlotFiresIfActive ==
    (last_op.op = "timer_interrupt" /\ ActiveSlots(timer_data) # {}) =>
        \E i \in last_op.fired :
            /\ Active(i)
            /\ timer_data[i].remain = timer_data[i].wait_us
            /\ timer_data[i].times_fired > 0

\* the handler ran on the interrupt left armed by a removed timer and fired
\* the timer that remained, whose remain was not the elapsed time
C14_Witness ==
    /\ last_op.op = "timer_interrupt"
    /\ \E i \in last_op.fired :
          Active(i) /\ last_op.fire_age[i] # timer_data[i].wait_us

\* C15: when the handler runs while no timer is active, find_minimal_remain
\* returns 0xffffffff, no slot is modified, last_update_timer_value becomes the
\* counter value and the compare register becomes counter + 0xffffffff, which
\* the counter reaches again only after 2^32 - 1 ticks.
C15_HandlerOnEmptyTable ==
    [][(timer_interrupt /\ ActiveSlots(timer_data) = {}) =>
          /\ find_minimal_remain(timer_data) = WordMod - 1
          /\ timer_data' = timer_data
          /\ last_update_timer_value' = tmr_val_reg
          /\ tmr_cmp_reg' = (tmr_val_reg + (WordMod - 1)) % WordMod
          /\ Sub32(tmr_cmp_reg', tmr_val_reg') = WordMod - 1]_vars

\* the handler ran on an empty table at a compare value that an earlier
\* set_timer or handler run had armed, every timer having been removed since
C15_Witness ==
    /\ last_op.op = "timer_interrupt"
    /\ ActiveSlots(timer_data) = {}
    /\ last_op.fired = {}
    /\ tmr_val_reg # 0
    /\ tmr_cmp_reg = Sub32(tmr_val_reg, 1)

\* C16: a run of the handler changes no slot's wait_us and modifies no inactive
\* slot; set_timer(id, P) changes neither wait_us nor times_fired of any slot
\* other than id.
C16_OnlyExplicitDeactivation ==
    [][/\ timer_interrupt =>
            \A i \in Slots :
                /\ timer_data'[i].wait_us = timer_data[i].wait_us
                /\ ~Active(i) => timer_data'[i] = timer_data[i]
       /\ \A id \in ValidIds :
            (\E w \in WaitInputs : set_timer(id, w)) =>
                \A j \in Slots \ {id} :
                    /\ timer_data'[j].wait_us = timer_data[j].wait_us
                    /\ timer_data'[j].times_fired = timer_data[j].times_fired]_vars

\* a timer that had fired kept its count while set_timer on the other slot
\* rebased it
C16_Witness ==
    /\ last_op.op = "set_timer"
    /\ last_op.id \in ValidIds
    /\ \E j \in Slots \ {last_op.id} :
          /\ Active(j)
          /\ timer_data[j].times_fired > 0
          /\ timer_data[j].remain < timer_data[j].wait_us

\* the handler has fired a timer for the last time MaxFired allows, with an
\* inactive slot beside it, and the timer is still active
C16_WitnessHandler ==
    /\ last_op.op = "timer_interrupt"
    /\ \E i \in last_op.fired : Active(i) /\ timer_data[i].times_fired = MaxFired
    /\ \E j \in ValidIds : ~Active(j)

\* C17: set_timer(id, P) keeps the absolute deadline
\* last_update_timer_value + remain (mod 2^32) of every other active slot, also
\* when the counter has wrapped past 0 since the last update.
C17_InstallKeepsDeadlines ==
    [][\A id \in ValidIds :
          (\E w \in WaitInputs : set_timer(id, w)) =>
              \A j \in ActiveSlots(timer_data) \ {id} :
                  (last_update_timer_value' + timer_data'[j].remain) % WordMod
                      = (last_update_timer_value + timer_data[j].remain) % WordMod]_vars

\* set_timer rebased a running timer after the counter had wrapped past 0 since
\* the last update
C17_Witness ==
    /\ last_op.op = "set_timer"
    /\ last_op.id \in ValidIds
    /\ last_op.wrapped
    /\ \E j \in ActiveSlots(timer_data) \ {last_op.id} :
          timer_data[j].remain < timer_data[j].wait_us

\* C18: when set_timer has run after the counter passed the armed compare value
\* and before the handler ran, then once the handler has run every active slot
\* has 0 <= remain <= wait_us again and a timer has fired.
C18_OverdueOnlyTransient ==
    (last_op.op = "timer_interrupt" /\ last_op.late = "set") =>
        /\ \A i \in Slots :
              Active(i) => /\ 0 <= timer_data[i].remain
                           /\ timer_data[i].remain <= timer_data[i].wait_us
        /\ (ActiveSlots(timer_data) # {} => last_op.fired # {})

\* C19: while the counter keeps counting and the handler runs at every match,
\* a timer that is active and is never again removed or re-installed fires
\* again and again: no slot stays active from some point on without firing and
\* without a set_timer on it.
C19_ActiveTimerFires ==
    \A i \in ValidIds :
        []<>(\/ ~Active(i)
             \/ (last_op.op = "timer_interrupt" /\ i \in last_op.fired)
             \/ (last_op.op = "set_timer" /\ last_op.id = i))

\* a timer has fired while set_timer and remove_timer were called on the other
\* slot between its install and its firing
C19_Witness ==
    /\ last_op.op = "timer_interrupt"
    /\ \E i \in last_op.fired :
          /\ Active(i)
          /\ timer_data[i].times_fired >= 2
          /\ \E j \in ValidIds \ {i} : ~Active(j) /\ j \notin last_op.fired

\* C20: in every state reached by atomic set_timer, remove_timer and
\* timer_interrupt runs, every inactive slot (wait_us = 0) has remain = 0 and
\* times_fired = 0.
C20_InactiveSlotIsZero ==
    \A i \in Slots :
        timer_data[i].wait_us = 0 =>
            timer_data[i].remain = 0 /\ timer_data[i].times_fired = 0

\* an active timer has just been removed after the handler has run, next to
\* a timer that has fired and goes on
C20_Witness ==
    /\ last_op.op = "remove_timer"
    /\ last_op.was_active
    /\ tmr_clr_reg = 1
    /\ timer_data[last_op.id].wait_us = 0
    /\ \E j \in Slots : Active(j) /\ timer_data[j].times_fired > 0

====
